---- MODULE Spec2Model ----
(***************************************************************************)
(* Model of src/main.rs: three key loaders (raw DER files, base64 files,   *)
(* base64 environment variables), the shared Keys::from_der constructor,   *)
(* the token issuer test_keys, and the sequential pass of main over the    *)
(* three loaders.                                                          *)
(*                                                                         *)
(* Bytes and characters are integers 0..255 (text is a sequence of ASCII   *)
(* codes).  A Rust panic (an unwrap on Err) ends the process: pc becomes   *)
(* "panicked" and no further step is taken.                                *)
(***************************************************************************)
EXTENDS Integers, Sequences, FiniteSets, TLC

VARIABLES fs, envfile, env, clock, src, pc, attempt, loadCalls, testCalls,
          loadResult, dotenvResult, issuedAt, tokens, log

vars == <<fs, envfile, env, clock, src, pc, attempt, loadCalls, testCalls,
          loadResult, dotenvResult, issuedAt, tokens, log>>

(***************************************************************************)
(* Bounds of the model.                                                    *)
(***************************************************************************)
\* longest run of whitespace put before and after a base64 payload
MaxPad == 1
\* largest number of seconds that pass between two readings of the clock
MaxTick == 1

(***************************************************************************)
(* Config::DEFAULT and the order of the loaders in main.                   *)
(***************************************************************************)
private_der == "private.der"
public_der == "public.der"
private_der_b64 == "private.der.b64"
public_der_b64 == "public.der.b64"
jwt_private_env == "JWT_PRIVATE"
jwt_public_env == "JWT_PUBLIC"

Paths == {private_der, public_der, private_der_b64, public_der_b64}
EnvNames == {jwt_private_env, jwt_public_env}

FileDerLoader == 1
B64FileDerLoader == 2
EnvB64DerLoader == 3
Sources == {FileDerLoader, B64FileDerLoader, EnvB64DerLoader}

(***************************************************************************)
(* Standard base64 (alphabet A-Z a-z 0-9 + /, padding =), canonical        *)
(* padding required, trailing bits must be zero.                           *)
(***************************************************************************)
PadChar == 61

B64Char(v) ==
    IF v < 26 THEN 65 + v
    ELSE IF v < 52 THEN 97 + (v - 26)
    ELSE IF v < 62 THEN 48 + (v - 52)
    ELSE IF v = 62 THEN 43
    ELSE 47

B64Val(c) ==
    IF c >= 65 /\ c <= 90 THEN c - 65
    ELSE IF c >= 97 /\ c <= 122 THEN c - 97 + 26
    ELSE IF c >= 48 /\ c <= 57 THEN c - 48 + 52
    ELSE IF c = 43 THEN 62
    ELSE IF c = 47 THEN 63
    ELSE -1

RECURSIVE Encode(_)
Encode(b) ==
    IF Len(b) = 0 THEN <<>>
    ELSE IF Len(b) = 1 THEN
        <<B64Char(b[1] \div 4), B64Char((b[1] % 4) * 16), PadChar, PadChar>>
    ELSE IF Len(b) = 2 THEN
        <<B64Char(b[1] \div 4), B64Char((b[1] % 4) * 16 + (b[2] \div 16)),
          B64Char((b[2] % 16) * 4), PadChar>>
    ELSE
        <<B64Char(b[1] \div 4), B64Char((b[1] % 4) * 16 + (b[2] \div 16)),
          B64Char((b[2] % 16) * 4 + (b[3] \div 64)), B64Char(b[3] % 64)>>
        \o Encode(SubSeq(b, 4, Len(b)))

DecodeErr == [ok |-> FALSE, bytes |-> <<>>]

\* the last group of four characters: xxxx, xxx= or xx==
DecodeLast(q) ==
    LET a == B64Val(q[1])
        b == B64Val(q[2])
        c == B64Val(q[3])
        d == B64Val(q[4])
    IN  IF a < 0 \/ b < 0 THEN DecodeErr
        ELSE IF q[3] = PadChar /\ q[4] = PadChar THEN
            IF b % 16 # 0 THEN DecodeErr
            ELSE [ok |-> TRUE, bytes |-> <<a * 4 + (b \div 16)>>]
        ELSE IF c < 0 THEN DecodeErr
        ELSE IF q[4] = PadChar THEN
            IF c % 4 # 0 THEN DecodeErr
            ELSE [ok |-> TRUE,
                  bytes |-> <<a * 4 + (b \div 16), (b % 16) * 16 + (c \div 4)>>]
        ELSE IF d < 0 THEN DecodeErr
        ELSE [ok |-> TRUE,
              bytes |-> <<a * 4 + (b \div 16), (b % 16) * 16 + (c \div 4),
                          (c % 4) * 64 + d>>]

RECURSIVE Decode(_)
Decode(t) ==
    IF Len(t) = 0 THEN [ok |-> TRUE, bytes |-> <<>>]
    ELSE IF Len(t) % 4 # 0 THEN DecodeErr
    ELSE IF Len(t) = 4 THEN DecodeLast(t)
    ELSE
        LET a == B64Val(t[1])
            b == B64Val(t[2])
            c == B64Val(t[3])
            d == B64Val(t[4])
            rest == Decode(SubSeq(t, 5, Len(t)))
        IN  IF a < 0 \/ b < 0 \/ c < 0 \/ d < 0 \/ ~rest.ok THEN DecodeErr
            ELSE [ok |-> TRUE,
                  bytes |-> <<a * 4 + (b \div 16), (b % 16) * 16 + (c \div 4),
                              (c % 4) * 64 + d>> \o rest.bytes]

(***************************************************************************)
(* str::trim: strips leading and trailing whitespace.                      *)
(***************************************************************************)
IsWhitespace(c) == c \in {9, 10, 11, 12, 13, 32}

RECURSIVE TrimStart(_)
TrimStart(t) ==
    IF Len(t) > 0 /\ IsWhitespace(t[1]) THEN TrimStart(Tail(t)) ELSE t

RECURSIVE TrimEnd(_)
TrimEnd(t) ==
    IF Len(t) > 0 /\ IsWhitespace(t[Len(t)])
    THEN TrimEnd(SubSeq(t, 1, Len(t) - 1)) ELSE t

\* variant: trim_end() in place of trim()
TrimEndOnly(t) == TrimEnd(t)

Trim(t) == TrimEnd(TrimStart(t))

(***************************************************************************)
(* Files and environment.  A file is [exists, bytes]; a variable of the    *)
(* process environment is [set, val]; the environment file is              *)
(* [exists, lines], each line either a key/value pair or malformed.        *)
(***************************************************************************)
Missing == [exists |-> FALSE, bytes |-> <<>>]
File(b) == [exists |-> TRUE, bytes |-> b]
Unset == [set |-> FALSE, val |-> <<>>]
Value(t) == [set |-> TRUE, val |-> t]

\* std::fs::read
fs_read(path, f) ==
    IF f[path].exists THEN [tag |-> "ok", bytes |-> f[path].bytes]
    ELSE [tag |-> "err", bytes |-> <<>>]

\* String::from_utf8 on the texts of the model: ASCII is valid, the bytes
\* 0xF8..0xFF never occur in UTF-8
IsUtf8(b) == \A i \in 1..Len(b) : b[i] < 128

\* std::fs::read_to_string
fs_read_to_string(path, f) ==
    IF f[path].exists /\ IsUtf8(f[path].bytes)
    THEN [tag |-> "ok", bytes |-> f[path].bytes]
    ELSE [tag |-> "err", bytes |-> <<>>]

\* b64file_to_bytes: read_to_string(path).unwrap(), then decode the trimmed text
b64file_to_bytes(path, f) ==
    LET r == fs_read_to_string(path, f)
    IN  IF r.tag = "err" THEN [tag |-> "panic", bytes |-> <<>>]
        ELSE LET d == Decode(Trim(r.bytes))
             IN  IF d.ok THEN [tag |-> "ok", bytes |-> d.bytes]
                 ELSE [tag |-> "err", bytes |-> <<>>]

\* env_b64_to_bytes: env::var(name)?, then decode(trimmed).unwrap()
env_b64_to_bytes(name, e) ==
    IF ~e[name].set THEN [tag |-> "err", bytes |-> <<>>]
    ELSE LET d == Decode(Trim(e[name].val))
         IN  IF d.ok THEN [tag |-> "ok", bytes |-> d.bytes]
             ELSE [tag |-> "panic", bytes |-> <<>>]

\* Display of env::VarError::NotPresent, the text passed to EnvVarNotFound
VarErrorToString == "environment variable not found"

\* dotenv(): every well-formed line before the first malformed one is merged,
\* a variable that is already set is kept
RECURSIVE MergeLines(_, _)
MergeLines(lines, e) ==
    IF Len(lines) = 0 THEN [result |-> "Ok", env |-> e]
    ELSE IF ~lines[1].ok THEN [result |-> "Err", env |-> e]
    ELSE MergeLines(Tail(lines),
                    IF e[lines[1].key].set THEN e
                    ELSE [e EXCEPT ![lines[1].key] = Value(lines[1].val)])

dotenv(file, e) ==
    IF ~file.exists THEN [result |-> "Err", env |-> e]
    ELSE MergeLines(file.lines, e)

(***************************************************************************)
(* Keys, Claims, AuthError and the results of load() and test_keys().      *)
(***************************************************************************)
\* Keys::from_der: both from_rsa_der constructors store the bytes unparsed
from_der(private_key, public_key) ==
    [encoding |-> private_key, decoding |-> public_key]

\* the DER parse that signing performs on the encoding key: a SEQUENCE tag
\* (0x30), a length byte and exactly that many content bytes
IsRsaDer(b) == Len(b) >= 2 /\ b[1] = 48 /\ Len(b) = 2 + b[2]

LoadOk(keys) == [kind |-> "Ok", payload |-> "", keys |-> <<keys>>]
LoadErr(kind, payload) == [kind |-> kind, payload |-> payload, keys |-> <<>>]
LoadPanic == [kind |-> "Panic", payload |-> "", keys |-> <<>>]
NotLoaded == [kind |-> "None", payload |-> "", keys |-> <<>>]

\* FileDerLoader::load
FileDerLoad(f) ==
    LET private_key == fs_read(private_der, f)
        public_key == fs_read(public_der, f)
    IN  IF private_key.tag = "err" THEN LoadErr("FileReadError", "NotFound")
        ELSE IF public_key.tag = "err" THEN LoadErr("FileReadError", "NotFound")
        ELSE LoadOk(from_der(private_key.bytes, public_key.bytes))

\* B64FileDerLoader::load
B64FileDerLoad(f) ==
    LET private_key == b64file_to_bytes(private_der_b64, f)
        public_key == b64file_to_bytes(public_der_b64, f)
    IN  IF private_key.tag = "panic" THEN LoadPanic
        ELSE IF private_key.tag = "err" THEN LoadErr("Base64DecodeError", "DecodeError")
        ELSE IF public_key.tag = "panic" THEN LoadPanic
        ELSE IF public_key.tag = "err" THEN LoadErr("Base64DecodeError", "DecodeError")
        ELSE LoadOk(from_der(private_key.bytes, public_key.bytes))

\* variant: dotenv().unwrap() in place of dotenv().ok()
EnvB64DerLoadStrict(r, e) ==
    LET private_key == env_b64_to_bytes(jwt_private_env, e)
        public_key == env_b64_to_bytes(jwt_public_env, e)
    IN  IF r = "Err" THEN LoadPanic
        ELSE IF private_key.tag = "panic" THEN LoadPanic
        ELSE IF private_key.tag = "err" THEN LoadErr("EnvVarNotFound", VarErrorToString)
        ELSE IF public_key.tag = "panic" THEN LoadPanic
        ELSE IF public_key.tag = "err" THEN LoadErr("EnvVarNotFound", VarErrorToString)
        ELSE LoadOk(from_der(private_key.bytes, public_key.bytes))

\* EnvB64DerLoader::load after dotenv().ok(): r is what dotenv() returned and
\* is discarded, e is the environment after the merge
EnvB64DerLoad(r, e) ==
    LET private_key == env_b64_to_bytes(jwt_private_env, e)
        public_key == env_b64_to_bytes(jwt_public_env, e)
    IN  IF private_key.tag = "panic" THEN LoadPanic
        ELSE IF private_key.tag = "err" THEN LoadErr("EnvVarNotFound", VarErrorToString)
        ELSE IF public_key.tag = "panic" THEN LoadPanic
        ELSE IF public_key.tag = "err" THEN LoadErr("EnvVarNotFound", VarErrorToString)
        ELSE LoadOk(from_der(private_key.bytes, public_key.bytes))

\* chrono::Duration::days(7), in seconds
SevenDays == 7 * 24 * 60 * 60

\* variant: Duration::hours(7) in place of Duration::days(7)
ExpiryHours(secs, nanos) ==
    LET sum == [secs |-> secs + 7 * 60 * 60, nanos |-> nanos]
    IN  sum.secs

\* (now + Duration::days(7)).timestamp() as usize, now = secs + nanos/10^9
\* with secs >= 0 (Utc::now() panics before the epoch), usize of 64 bits
Expiry(secs, nanos) ==
    LET sum == [secs |-> secs + SevenDays, nanos |-> nanos]
    IN  sum.secs

\* the Claims built by test_keys
MakeClaims(secs, nanos) ==
    [sub |-> "test@domain.com", iss |-> "main.rs", exp |-> Expiry(secs, nanos)]

\* test_keys: jwt_encode with an RS256 header; signing parses the encoding key
test_keys(keys, secs, nanos) ==
    IF IsRsaDer(keys.encoding)
    THEN [tag |-> "ok", err |-> "",
          token |-> <<[header |-> [alg |-> "RS256", typ |-> "JWT"],
                       claims |-> MakeClaims(secs, nanos),
                       signedWith |-> keys.encoding]>>]
    ELSE [tag |-> "err", err |-> "TokenCreation", token |-> <<>>]

(***************************************************************************)
(* The inputs of a run: contents of the four key files, of the two         *)
(* environment variables, of the environment file, and the clock.          *)
(***************************************************************************)
\* well-formed private keys of 2, 3 and 4 bytes (base64 with "=", no and "==" padding)
GoodPrivs == {<<48, 0>>, <<48, 1, 2>>, <<48, 2, 255, 7>>}
GoodPub == <<48, 1, 5>>

Zeroed(b) == [i \in 1..Len(b) |-> 0]
Truncated(b) == SubSeq(b, 1, Len(b) - 1)

\* whitespace put before (spaces, tabs) and after (newlines, carriage returns)
WsLead(n) == [i \in 1..n |-> IF i % 2 = 1 THEN 32 ELSE 9]
WsTrail(n) == [i \in 1..n |-> IF i % 2 = 1 THEN 10 ELSE 13]
Padded(t, l, r) == WsLead(l) \o t \o WsTrail(r)
Pads == {<<0, 0>>, <<MaxPad, MaxPad>>}

\* "%%%%": characters outside the alphabet; "QQ=": bad padding
BadAlphabet == <<37, 37, 37, 37>>
BadPadding == <<81, 81, 61>>
NotUtf8 == <<255, 254>>

Presented(b) == {Padded(Encode(b), p[1], p[2]) : p \in Pads}

RawPrivFiles(k) == {Missing, File(k), File(Zeroed(k)), File(Truncated(k))}
RawPubFiles == {Missing, File(GoodPub), File(Zeroed(GoodPub))}
B64PrivFiles(k) ==
    {Missing, File(NotUtf8), File(BadAlphabet), File(Encode(Zeroed(k)))}
    \cup {File(t) : t \in Presented(k)}
B64PubFiles ==
    {Missing, File(BadPadding), File(Padded(Encode(GoodPub), 0, MaxPad))}
EnvPrivValues(k) ==
    {Unset, Value(BadAlphabet), Value(Encode(Truncated(k)))}
    \cup {Value(t) : t \in Presented(k)}
EnvPubValues ==
    {Unset, Value(BadPadding), Value(Padded(Encode(GoodPub), MaxPad, 0))}

Line(key, val) == [ok |-> TRUE, key |-> key, val |-> val]
BadLine == [ok |-> FALSE, key |-> "", val |-> <<>>]
NoEnvFile == [exists |-> FALSE, lines |-> <<>>]
EnvFiles(k) ==
    {NoEnvFile,
     [exists |-> TRUE,
      lines |-> <<Line(jwt_private_env, Encode(k)), Line(jwt_public_env, Encode(GoodPub))>>],
     [exists |-> TRUE,
      lines |-> <<Line(jwt_private_env, Encode(k)), BadLine,
                  Line(jwt_public_env, Encode(GoodPub))>>],
     [exists |-> TRUE, lines |-> <<BadLine>>]}

\* the clock at start-up, seconds since the epoch
StartTimes == {0, 1793525000}
Nanos == {0, 999999999}

(***************************************************************************)
(* main: one pass over the three loaders.                                  *)
(***************************************************************************)
Init ==
    /\ \E k \in GoodPrivs :
          /\ \E a \in RawPrivFiles(k), b \in RawPubFiles,
                c \in B64PrivFiles(k), d \in B64PubFiles :
                fs = (private_der :> a) @@ (public_der :> b)
                     @@ (private_der_b64 :> c) @@ (public_der_b64 :> d)
          /\ \E a \in EnvPrivValues(k), b \in EnvPubValues :
                env = (jwt_private_env :> a) @@ (jwt_public_env :> b)
          /\ envfile \in EnvFiles(k)
    /\ clock \in StartTimes
    /\ src = FileDerLoader
    /\ pc = "begin"
    /\ attempt = [i \in Sources |-> "NotStarted"]
    /\ loadCalls = [i \in Sources |-> 0]
    /\ testCalls = [i \in Sources |-> 0]
    /\ loadResult = [i \in Sources |-> NotLoaded]
    /\ dotenvResult = "None"
    /\ issuedAt = [i \in Sources |-> <<>>]
    /\ tokens = [i \in Sources |-> <<>>]
    /\ log = <<>>

Report(i, outcome, err, payload, token) ==
    [source |-> i, outcome |-> outcome, err |-> err, payload |-> payload,
     token |-> token]

\* the next loader of main, or the end of main
Advance ==
    IF src = EnvB64DerLoader
    THEN pc' = "done" /\ src' = src
    ELSE pc' = "begin" /\ src' = src + 1

\* debug!("Testing ...")
Begin ==
    /\ pc = "begin"
    /\ attempt' = [attempt EXCEPT ![src] = "Loading"]
    /\ log' = Append(log, Report(src, "Testing", "", "", <<>>))
    /\ pc' = "load"
    /\ UNCHANGED <<fs, envfile, env, clock, src, loadCalls, testCalls,
                   loadResult, dotenvResult, issuedAt, tokens>>

\* the match on the value of load(): Ok goes on to test_keys, Err is reported,
\* a panic inside load() ends the process
Loaded(r) ==
    /\ loadCalls' = [loadCalls EXCEPT ![src] = @ + 1]
    /\ loadResult' = [loadResult EXCEPT ![src] = r]
    /\ IF r.kind = "Panic" THEN
          /\ pc' = "panicked"
          /\ UNCHANGED <<src, attempt, log>>
       ELSE IF r.kind = "Ok" THEN
          /\ pc' = "test"
          /\ attempt' = [attempt EXCEPT ![src] = "Loaded"]
          /\ UNCHANGED <<src, log>>
       ELSE
          /\ attempt' = [attempt EXCEPT ![src] = "LoadFailed"]
          /\ log' = Append(log, Report(src, "LoadFailure", r.kind, r.payload, <<>>))
          /\ Advance

LoadFile ==
    /\ pc = "load" /\ src = FileDerLoader
    /\ Loaded(FileDerLoad(fs))
    /\ UNCHANGED <<fs, envfile, env, clock, testCalls, dotenvResult, issuedAt, tokens>>

LoadB64File ==
    /\ pc = "load" /\ src = B64FileDerLoader
    /\ Loaded(B64FileDerLoad(fs))
    /\ UNCHANGED <<fs, envfile, env, clock, testCalls, dotenvResult, issuedAt, tokens>>

LoadEnv ==
    /\ pc = "load" /\ src = EnvB64DerLoader
    /\ LET d == dotenv(envfile, env)
       IN  /\ env' = d.env
           /\ dotenvResult' = d.result
           /\ Loaded(EnvB64DerLoad(d.result, d.env))
    /\ UNCHANGED <<fs, envfile, clock, testCalls, issuedAt, tokens>>

\* match test_keys(&keys): the token or the signing failure is reported
TestKeys ==
    /\ pc = "test"
    /\ \E dt \in 0..MaxTick, nanos \in Nanos :
          LET now == clock + dt
              r == test_keys(loadResult[src].keys[1], now, nanos)
          IN  /\ clock' = now
              /\ issuedAt' = [issuedAt EXCEPT ![src] = <<now>>]
              /\ tokens' = [tokens EXCEPT ![src] = r.token]
              /\ attempt' = [attempt EXCEPT
                                ![src] = IF r.tag = "ok" THEN "Issued" ELSE "SignFailed"]
              /\ log' = Append(log,
                               IF r.tag = "ok"
                               THEN Report(src, "Token", "", "", r.token)
                               ELSE Report(src, "SignFailure", r.err, "", <<>>))
    /\ testCalls' = [testCalls EXCEPT ![src] = @ + 1]
    /\ Advance
    /\ UNCHANGED <<fs, envfile, env, loadCalls, loadResult, dotenvResult>>

Next == Begin \/ LoadFile \/ LoadB64File \/ LoadEnv \/ TestKeys

Spec == Init /\ [][Next]_vars

(***************************************************************************)
(* Properties.                                                             *)
(***************************************************************************)
RunEnded == pc \in {"done", "panicked"}
Terminal == {"LoadFailed", "SignFailed", "Issued"}
Outcomes == SelectSeq(log, LAMBDA r : r.outcome # "Testing")
PrivIn(i) == IF i = FileDerLoader THEN fs_read(private_der, fs)
             ELSE IF i = B64FileDerLoader THEN b64file_to_bytes(private_der_b64, fs)
             ELSE env_b64_to_bytes(jwt_private_env, env)
PubIn(i) == IF i = FileDerLoader THEN fs_read(public_der, fs)
            ELSE IF i = B64FileDerLoader THEN b64file_to_bytes(public_der_b64, fs)
            ELSE env_b64_to_bytes(jwt_public_env, env)
IsPresentation(t, b) ==
    \E l \in 0..MaxPad, r \in 0..MaxPad : t = Padded(Encode(b), l, r)
ValidB64(t) == Decode(Trim(t)).ok

\* C1: when the run has ended, whatever failed in an earlier source, load()
\* has been invoked for all three loaders.
C1_AllSourcesLoaded ==
    RunEnded => \A i \in Sources : loadCalls[i] >= 1

\* C2: for the two file-backed loaders, when one of the two files is missing
\* or unreadable, load() returns FileReadError, no token is produced for that
\* source and the process does not abort.
C2_UnreadableFileIsFileReadError ==
    /\ (loadCalls[FileDerLoader] = 1
        /\ (fs_read(private_der, fs).tag = "err" \/ fs_read(public_der, fs).tag = "err"))
       => /\ loadResult[FileDerLoader].kind = "FileReadError"
          /\ tokens[FileDerLoader] = <<>>
          /\ pc # "panicked"
    /\ (loadCalls[B64FileDerLoader] = 1
        /\ (fs_read_to_string(private_der_b64, fs).tag = "err"
            \/ fs_read_to_string(public_der_b64, fs).tag = "err"))
       => /\ loadResult[B64FileDerLoader].kind = "FileReadError"
          /\ tokens[B64FileDerLoader] = <<>>
          /\ pc # "panicked"

\* C3: for the two base64 loaders, when both inputs are there and the trimmed
\* text of one of them is not valid base64, load() returns Base64DecodeError
\* and the process does not crash.
C3_BadBase64IsDecodeError ==
    /\ (loadCalls[B64FileDerLoader] = 1
        /\ fs_read_to_string(private_der_b64, fs).tag = "ok"
        /\ fs_read_to_string(public_der_b64, fs).tag = "ok"
        /\ (~ValidB64(fs[private_der_b64].bytes) \/ ~ValidB64(fs[public_der_b64].bytes)))
       => /\ loadResult[B64FileDerLoader].kind = "Base64DecodeError"
          /\ pc # "panicked"
    /\ (loadCalls[EnvB64DerLoader] = 1
        /\ env[jwt_private_env].set /\ env[jwt_public_env].set
        /\ (~ValidB64(env[jwt_private_env].val) \/ ~ValidB64(env[jwt_public_env].val)))
       => /\ loadResult[EnvB64DerLoader].kind = "Base64DecodeError"
          /\ pc # "panicked"

\* C4: when load() of the environment loader reads a variable that is unset,
\* it returns EnvVarNotFound carrying the name of that variable.
C4_EnvVarNotFoundCarriesName ==
    loadCalls[EnvB64DerLoader] = 1 =>
       /\ ~env[jwt_private_env].set
          => loadResult[EnvB64DerLoader] = LoadErr("EnvVarNotFound", jwt_private_env)
       /\ (env[jwt_private_env].set /\ ValidB64(env[jwt_private_env].val)
           /\ ~env[jwt_public_env].set)
          => loadResult[EnvB64DerLoader] = LoadErr("EnvVarNotFound", jwt_public_env)

\* C5: for every source, when both byte buffers were obtained and one of them
\* is not DER RSA key material, the attempt ends with a KeyParse error at the
\* load stage: no Keys value is built, test_keys is not invoked, no abort.
C5_MalformedDerIsKeyParse ==
    \A i \in Sources :
       (loadCalls[i] = 1 /\ PrivIn(i).tag = "ok" /\ PubIn(i).tag = "ok"
        /\ (~IsRsaDer(PrivIn(i).bytes) \/ ~IsRsaDer(PubIn(i).bytes)))
       => /\ loadResult[i].kind = "KeyParse"
          /\ loadResult[i].keys = <<>>
          /\ testCalls[i] = 0
          /\ pc # "panicked"

\* C6: a run that has ended has attempted each source exactly once, in the
\* order FileDerLoader, B64FileDerLoader, EnvB64DerLoader, and has reported
\* exactly one outcome per source in that order.
C6_OnePassInOrder ==
    RunEnded =>
       /\ \A i \in Sources : loadCalls[i] = 1
       /\ Len(Outcomes) = 3
       /\ \A n \in 1..Len(Outcomes) : Outcomes[n].source = n

\* C7: test_keys is invoked for a source only after its load() returned Ok, a
\* token is reported only from Issued, and when the run has ended every
\* attempt that was started is in one of LoadFailed, SignFailed, Issued.
C7_AttemptStateMachine ==
    /\ \A i \in Sources : testCalls[i] > 0 => loadResult[i].kind = "Ok"
    /\ \A n \in 1..Len(log) :
          log[n].outcome = "Token" => attempt[log[n].source] = "Issued"
    /\ RunEnded =>
          \A i \in Sources : attempt[i] # "NotStarted" => attempt[i] \in Terminal

\* C8: a token issued at time T carries exp = T + 604800 > T, and the fixed
\* subject and issuer, whatever T and the key source.
C8_ExpiryIsSevenDays ==
    \A i \in Sources :
       tokens[i] # <<>> =>
          /\ tokens[i][1].claims.exp = issuedAt[i][1] + 604800
          /\ tokens[i][1].claims.exp > issuedAt[i][1]
          /\ tokens[i][1].claims.sub = "test@domain.com"
          /\ tokens[i][1].claims.iss = "main.rs"

C8_Witness ==
    /\ pc = "done"
    /\ \A i \in Sources : tokens[i] # <<>>
    /\ issuedAt[EnvB64DerLoader][1] > issuedAt[FileDerLoader][1]
    /\ issuedAt[FileDerLoader][1] >= 1793525000

\* the same key pair in the raw files, the base64 files and the environment
SameKeypair(k) ==
    /\ fs[private_der] = File(k)
    /\ fs[public_der] = File(GoodPub)
    /\ fs[private_der_b64].exists /\ IsPresentation(fs[private_der_b64].bytes, k)
    /\ fs[public_der_b64].exists /\ IsPresentation(fs[public_der_b64].bytes, GoodPub)
    /\ env[jwt_private_env].set /\ IsPresentation(env[jwt_private_env].val, k)
    /\ env[jwt_public_env].set /\ IsPresentation(env[jwt_public_env].val, GoodPub)

\* C9: with the same valid key pair presented as raw bytes, as base64 file
\* text and as base64 environment values (whitespace around the base64
\* allowed), every loader hands the same bytes to Keys::from_der, all three
\* attempts end in Issued and the tokens carry the same subject and issuer.
C9_SameKeysFromAllSources ==
    \A k \in GoodPrivs :
       SameKeypair(k) =>
          /\ pc # "panicked"
          /\ \A i \in Sources :
                loadCalls[i] = 1 => loadResult[i] = LoadOk(from_der(k, GoodPub))
          /\ pc = "done" =>
                \A i \in Sources :
                   /\ attempt[i] = "Issued"
                   /\ tokens[i] # <<>>
                   /\ tokens[i][1].claims.sub = tokens[FileDerLoader][1].claims.sub
                   /\ tokens[i][1].claims.iss = tokens[FileDerLoader][1].claims.iss

C9_Witness ==
    /\ pc = "done"
    /\ \E k \in GoodPrivs :
          /\ SameKeypair(k)
          /\ Len(k) = 4
          /\ fs[private_der_b64].bytes = Padded(Encode(k), MaxPad, MaxPad)
          /\ env[jwt_private_env].val = Padded(Encode(k), MaxPad, MaxPad)

\* C10: the merge of the environment file never aborts the run and never
\* fails the load by itself: once load() of the environment loader has run,
\* two set variables with valid base64 give Ok whatever dotenv() returned, an
\* error value means a variable is unset after the merge, and an abort means
\* a set variable holds invalid base64.
C10_DotenvIsBestEffort ==
    loadCalls[EnvB64DerLoader] = 1 =>
       /\ dotenvResult \in {"Ok", "Err"}
       /\ (/\ env[jwt_private_env].set /\ ValidB64(env[jwt_private_env].val)
           /\ env[jwt_public_env].set /\ ValidB64(env[jwt_public_env].val))
          => loadResult[EnvB64DerLoader].kind = "Ok"
       /\ loadResult[EnvB64DerLoader].kind \notin {"Ok", "Panic"}
          => \E n \in EnvNames : ~env[n].set
       /\ loadResult[EnvB64DerLoader].kind = "Panic"
          => \E n \in EnvNames : env[n].set /\ ~ValidB64(env[n].val)

C10_Witness ==
    /\ loadCalls[EnvB64DerLoader] = 1
    /\ dotenvResult = "Err"
    /\ loadResult[EnvB64DerLoader].kind = "Ok"
    /\ attempt[EnvB64DerLoader] = "Issued"

====
